---- MODULE Spec2Model ----
(***************************************************************************)
(* Model of the Node-RED nodes of node-red-opc-server:                     *)
(*   opcua-client-nipper.js  the connection manager (ClientNode)           *)
(*   login.js                the token cache (LoginNode)                   *)
(* One behaviour is the life of one node instance; nodeType says which     *)
(* constructor built it.  Every await of the source is a suspension point: *)
(* an action runs a handler from one suspension point to the next, the     *)
(* remote call's outcome is an input of the action that resumes it.        *)
(***************************************************************************)
EXTENDS Integers, Sequences, FiniteSets, TLC

\* ------------------------------------------------------------------ bounds
\* Number of reconnect timers the model lets scheduleReconnect create.
MaxTimers == 2

\* Number of reads and writes the input handler can await at the same time.
MaxRequests == 1

\* Number of samples the model lets the remote source take of each point.
MaxSamples == 2

\* Number of login calls that can be awaited at the same time.
MaxInflight == 2
\* The clock advances in steps of TickMs milliseconds, up to MaxNow.
TickMs == 5000
MaxNow == 70000
MaxStarts == 2

\* --------------------------------------------------------------- constants
\* null / undefined of the source, for handles and numbers.
NULL == 0

\* Process 0 is the close handler, process 1 the connectOnce() call of the
\* constructor, processes 2.. are the reconnect timers in creation order.
CloseProc == 0
FirstProc == 1
Procs == CloseProc .. (FirstProc + MaxTimers)
TimerProcs == (FirstProc + 1) .. (FirstProc + MaxTimers)
ConnectProcs == FirstProc .. (FirstProc + MaxTimers)

\* config.items as kept by the constructor (lines 66-77): byTopic in insertion
\* order, each item with its topic, nodeId and dataType.
Items == << [topic |-> "temp", nodeId |-> "ns=1;s=Temp", dataType |-> "Auto"],
           [topic |-> "t1", nodeId |-> "ns=1;s=X", dataType |-> "Int32"] >>
NPoints == Len(Items)
Points == 1 .. NPoints

\* ------------------------------------------------------ JavaScript values
\* A JavaScript value of a response field or of a context key: null (or
\* undefined: the source never tells them apart), a number or a string.
JsNull == [t |-> "null", n |-> 0, s |-> ""]
Num(n) == [t |-> "number", n |-> n, s |-> ""]
Str(s) == [t |-> "string", n |-> 0, s |-> s]

\* JavaScript truthiness of such a value.
Truthy(x) ==
    CASE x.t = "null" -> FALSE
      [] x.t = "number" -> x.n # 0
      [] x.t = "string" -> x.s # ""

\* a || b
OrElse(a, b) == IF Truthy(a) THEN a ELSE b

\* Date.parse on the date-time strings the model's responses carry:
\* milliseconds since the epoch, or NaN (ok = FALSE).
DateParse(s) ==
    CASE s = "1970-01-01T00:03:00.000Z" -> [ok |-> TRUE, ms |-> 180000]
      [] s = "1970-01-01T00:00:30.000Z" -> [ok |-> TRUE, ms |-> 30000]
      [] OTHER -> [ok |-> FALSE, ms |-> 0]

\* Number(x) on the values the model's responses carry.
ToNumber(x) ==
    CASE x.t = "number" -> [ok |-> TRUE, n |-> x.n]
      [] x.t = "string" /\ x.s = "60" -> [ok |-> TRUE, n |-> 60]
      [] x.t = "string" /\ x.s = "120" -> [ok |-> TRUE, n |-> 120]
      [] OTHER -> [ok |-> FALSE, n |-> 0]

\* The keys of the global context the input handler can write: the configured
\* topics and the nodeId of a message that names no configured point.
StoreKeys == {Items[i].topic : i \in Points} \cup {"ns=9;s=Y"}

\* No message, and the message a handler passes to send: its topic, nodeId
\* and payload.
NoMsg == [topic |-> "", nodeId |-> "", payload |-> JsNull]

VARIABLES
    nodeType,       \* which constructor built this node instance
    \* ---- ClientNode (opcua-client-nipper.js)
    stopping,       \* let stopping
    reconnectTimer, \* let reconnectTimer: NULL or the pending timer
    client,         \* let client: NULL or the client object (named by its creator)
    session,        \* let session
    subscription,   \* let subscription
    miMap,          \* keys of miMap: the points with a registered monitored item
    pc,             \* where each async call chain is suspended
    mon,            \* the point whose ClientMonitoredItem.create is awaited
    nextTimer,      \* the next timer setTimeout will create
    terminatedOn,   \* subscriptions carrying the "terminated" listener
    lostArmed,      \* the first client object is connected: it can emit "connection_lost"
    status,         \* text of the last node.status call
    lastSched,      \* what the last scheduleReconnect call did
    cleanupEnd,     \* handles as they were when the last cleanup() returned
    monOk,          \* points whose monitored item was created since the last ClientSubscription.create
    lastInput,      \* what the input handler did last: dropped, issued, sent, error
    gctx,           \* the global context keys that hold point values
    reqs,           \* the session.read and session.write calls awaited by the input handler
    sent,           \* the message the last handler step passed to send, if any
    remote,         \* remote source: the number of the sample it holds of each point
    notified,       \* remote source: the last sample each monitored item has delivered
    \* ---- LoginNode (login.js); stopping is the flag of either node
    auth,           \* the context keys Auth.SessionToken, Auth.Retcode, Auth.ExpiresAt
    now,            \* Date.now(), in milliseconds
    inflight,       \* the httpGetJson calls awaited by doLogin, in the order issued
    timer,          \* let timer: the poll interval is set
    stored,         \* when and from which payload the last login that succeeded saved its token
    lastAct,        \* the handler the last step ran, and what it returned or sent
    overtaken,      \* how many of the first calls in flight were issued before the call
                    \* whose result the store holds
    preLogout,      \* how many of the first calls in flight were issued before the last logout
    \* ---- OpcUaServerNode (opcua-server-Nipper.js); status and gctx are shared
    server,         \* let server: NULL or the server object (named by its creator)
    nodeMap,        \* keys of nodeMap: the topics with a variable in the address space
    startPc,        \* where each startServer call, and the close handler, is suspended
    stops,          \* the callers of the stopServer calls that await shutdown
    reply           \* the message the last handler step passed to send, if any

clientVars == <<stopping, reconnectTimer, client, session, subscription, miMap, pc,
                mon, nextTimer, terminatedOn, lostArmed, status, lastSched,
                cleanupEnd, monOk, lastInput, gctx, reqs, sent, remote, notified>>

loginVars == <<auth, now, inflight, timer, stored, lastAct, overtaken, preLogout>>

serverVars == <<server, nodeMap, startPc, stops, reply>>

vars == <<nodeType, clientVars, loginVars, serverVars>>

\* The mutable state of one ClientNode as a record, so that the synchronous
\* part of a handler is a composition of functions on it.
ClientState ==
    [stopping |-> stopping, reconnectTimer |-> reconnectTimer, client |-> client,
     session |-> session, subscription |-> subscription, miMap |-> miMap, pc |-> pc,
     mon |-> mon, nextTimer |-> nextTimer, terminatedOn |-> terminatedOn,
     lostArmed |-> lostArmed, status |-> status, lastSched |-> lastSched,
     cleanupEnd |-> cleanupEnd, monOk |-> monOk]

SetClient(s) ==
    /\ stopping' = s.stopping
    /\ reconnectTimer' = s.reconnectTimer
    /\ client' = s.client
    /\ session' = s.session
    /\ subscription' = s.subscription
    /\ miMap' = s.miMap
    /\ pc' = s.pc
    /\ mon' = s.mon
    /\ nextTimer' = s.nextTimer
    /\ terminatedOn' = s.terminatedOn
    /\ lostArmed' = s.lostArmed
    /\ status' = s.status
    /\ lastSched' = s.lastSched
    /\ cleanupEnd' = s.cleanupEnd
    /\ monOk' = s.monOk

NoCleanup == [done |-> FALSE, subscription |-> NULL, session |-> NULL,
              client |-> NULL, miMap |-> {}]

LastProc == FirstProc + MaxTimers

\* ------------------------------------------------- ClientNode: the handlers
\* scheduleReconnect without the test of line 166: a timer is set although
\* one is pending.
scheduleReconnect_NoPendingTest(s) ==
    IF s.stopping THEN [s EXCEPT !.lastSched = "stopping"]
    ELSE [s EXCEPT !.status = "opnieuw verbinden",
                   !.reconnectTimer = s.nextTimer,
                   !.pc[s.nextTimer] = "timer",
                   !.nextTimer = s.nextTimer + 1,
                   !.lastSched = IF s.reconnectTimer # NULL THEN "pending" ELSE "set"]

\* scheduleReconnect(reason), lines 164-173, up to the setTimeout call.
scheduleReconnect(s) ==
    IF s.stopping THEN [s EXCEPT !.lastSched = "stopping"]
    ELSE IF s.reconnectTimer # NULL THEN [s EXCEPT !.lastSched = "pending"]
    ELSE [s EXCEPT !.status = "opnieuw verbinden",
                   !.reconnectTimer = s.nextTimer,
                   !.pc[s.nextTimer] = "timer",
                   !.nextTimer = s.nextTimer + 1,
                   !.lastSched = "set"]

\* The catch block of connectOnce, lines 126-130.
catchConnect(s, p) ==
    [scheduleReconnect([s EXCEPT !.status = "fout verbinden"]) EXCEPT !.pc[p] = "failed"]

\* connectOnce without the test of line 92.
connectOnce_NoStoppingTest(s, p) ==
    [s EXCEPT !.status = "verbinden", !.client = p, !.pc[p] = "connect"]

\* connectOnce(), lines 91-104: up to the await of client.connect.
connectOnce(s, p) ==
    IF s.stopping THEN [s EXCEPT !.pc[p] = "aborted"]
    ELSE [s EXCEPT !.status = "verbinden", !.client = p, !.pc[p] = "connect"]

\* The loop of lines 118-124 from point i on, with addMonitor's early return
\* (line 134), up to the next await or to the end of connectOnce.
RECURSIVE monitorLoop(_, _, _)
monitorLoop(s, p, i) ==
    IF i > NPoints
    THEN IF s.subscription = NULL
         THEN catchConnect(s, p)
         ELSE [s EXCEPT !.terminatedOn = @ \cup {s.subscription}, !.pc[p] = "active"]
    ELSE IF s.subscription = NULL \/ s.session = NULL
         THEN monitorLoop(s, p, i + 1)
         ELSE [s EXCEPT !.pc[p] = "monitor", !.mon[p] = i]

\* cleanup(), lines 154-162, cut at its three awaits.  When it returns, the
\* close handler calls done() and a reconnect callback calls connectOnce().
cleanupReturn(s, p) ==
    LET s1 == [s EXCEPT !.client = NULL,
                        !.cleanupEnd = [done |-> TRUE, subscription |-> s.subscription,
                                        session |-> s.session, client |-> NULL,
                                        miMap |-> s.miMap]]
    IN  IF p = CloseProc THEN [s1 EXCEPT !.pc[p] = "closed"] ELSE connectOnce(s1, p)

cleanupAfterSession(s, p) ==
    LET s1 == [s EXCEPT !.session = NULL]
    IN  IF s1.client # NULL
        THEN [s1 EXCEPT !.pc[p] = "cl_client",
                         !.lostArmed = @ /\ s1.client # FirstProc]
        ELSE cleanupReturn(s1, p)

cleanupAfterSub(s, p) ==
    LET s1 == [s EXCEPT !.subscription = NULL, !.miMap = {}]
    IN  IF s1.session # NULL
        THEN [s1 EXCEPT !.pc[p] = "cl_sess"]
        ELSE cleanupAfterSession(s1, p)

cleanup(s, p) ==
    IF s.subscription # NULL
    THEN [s EXCEPT !.pc[p] = "cl_sub"]
    ELSE cleanupAfterSub(s, p)

CleanupPcs == {"cl_sub", "cl_sess", "cl_client"}

\* A step of the client node; a step that would create more timers than the
\* model holds is not taken.
ClientStep(s) ==
    /\ nodeType = "opcua-client-nipper"
    /\ s.nextTimer <= LastProc + 1
    /\ SetClient(s)
    /\ UNCHANGED <<nodeType, loginVars, serverVars>>

\* ------------------------------------------------- ClientNode: the actions
\* client.connect() settles (line 104) and connectOnce goes on to createSession.
ConnectDone(p, ok) ==
    /\ pc[p] = "connect"
    /\ LET s == ClientState
       IN  /\ ClientStep(
                IF ~ok THEN catchConnect(s, p)
                ELSE LET s1 == [s EXCEPT !.lostArmed = @ \/ p = FirstProc]
                     IN  IF s1.client = NULL
                         THEN catchConnect(s1, p)
                         ELSE [s1 EXCEPT !.pc[p] = "session"])
           /\ UNCHANGED <<lastInput, gctx, reqs, sent, remote, notified>>

\* client.createSession() settles (line 105); lines 107-120 follow.
SessionDone(p, ok) ==
    /\ pc[p] = "session"
    /\ LET s == ClientState
       IN  /\ ClientStep(
                IF ~ok THEN catchConnect(s, p)
                ELSE monitorLoop([s EXCEPT !.session = p, !.status = "verbonden",
                                           !.subscription = p, !.monOk = {}], p, 1))
           /\ UNCHANGED <<lastInput, gctx, reqs, sent, remote, notified>>

\* ClientMonitoredItem.create settles (lines 136-151) and the loop goes on.
MonitorDone(p, ok) ==
    /\ pc[p] = "monitor"
    /\ LET s == ClientState
           i == mon[p]
           s1 == IF ok THEN [s EXCEPT !.miMap = @ \cup {i}, !.monOk = @ \cup {i}] ELSE s
       IN  /\ ClientStep(monitorLoop(s1, p, i + 1))
           /\ notified' = IF ok THEN [notified EXCEPT ![i] = 0] ELSE notified
           /\ UNCHANGED <<lastInput, gctx, reqs, sent, remote>>

\* The setTimeout callback of scheduleReconnect fires (lines 168-171).
TimerFire(p) ==
    /\ pc[p] = "timer"
    /\ ClientStep(cleanup([ClientState EXCEPT !.reconnectTimer = NULL], p))
    /\ UNCHANGED <<lastInput, gctx, reqs, sent, remote, notified>>

\* An awaited teardown call of cleanup() settles; resolved or rejected, the
\* try/catch of its line goes on to the next line.
CleanupResume(p) ==
    /\ pc[p] \in CleanupPcs
    /\ LET s == ClientState
       IN  /\ ClientStep(
                CASE pc[p] = "cl_sub" -> cleanupAfterSub(s, p)
                  [] pc[p] = "cl_sess" -> cleanupAfterSession(s, p)
                  [] pc[p] = "cl_client" -> cleanupReturn(s, p))
           /\ UNCHANGED <<lastInput, gctx, reqs, sent, remote, notified>>

\* node.on("close"), lines 232-236.
Close ==
    /\ pc[CloseProc] = "idle"
    /\ LET s == ClientState
           s1 == [s EXCEPT !.stopping = TRUE]
           s2 == IF s1.reconnectTimer # NULL
                 THEN [s1 EXCEPT !.pc[s1.reconnectTimer] = "cancelled",
                                 !.reconnectTimer = NULL]
                 ELSE s1
       IN  /\ ClientStep(cleanup(s2, CloseProc))
           /\ UNCHANGED <<lastInput, gctx, reqs, sent, remote, notified>>

\* The first client object emits "connection_lost" (line 228).
ConnectionLost ==
    /\ lostArmed
    /\ ClientStep(scheduleReconnect([ClientState EXCEPT !.lostArmed = FALSE]))
    /\ UNCHANGED <<lastInput, gctx, reqs, sent, remote, notified>>

\* The client object a reconnect created loses its connection: lines 226-230
\* ran once, in the constructor, on the first client object, so this one
\* carries no "connection_lost" listener and no handler runs.
ConnectionLostUnheard(c) ==
    /\ c # FirstProc
    /\ client = c
    /\ pc[c] \in {"session", "monitor", "active"}
    /\ \A q \in Procs : pc[q] # "cl_client"
    /\ ClientStep([ClientState EXCEPT !.lastSched = "unheard"])
    /\ UNCHANGED <<lastInput, gctx, reqs, sent, remote, notified>>

\* A subscription emits "terminated" (lines 122-124).
SubTerminated(sub) ==
    /\ sub \in terminatedOn
    /\ ClientStep(IF ~stopping THEN scheduleReconnect(ClientState) ELSE ClientState)
    /\ UNCHANGED <<lastInput, gctx, reqs, sent, remote, notified>>

\* ------------------------------------------- ClientNode: the input handler
\* toDataType, lines 5-20: the OPC UA type of a configured name, "" for null.
DataTypeNames == {"Boolean", "SByte", "Byte", "Int16", "UInt16", "Int32", "UInt32",
                  "Float", "Double", "String", "DateTime"}

toDataType(name) == IF name \in DataTypeNames THEN name ELSE ""

\* guessVariant, lines 22-34: the type of the variant, by typeof val.
guessVariant(val) == IF val.t = "number" THEN "Double" ELSE "String"

\* toVariant, lines 36-45: the type of the variant a value is written as.
toVariant(val, dtypeName) ==
    IF dtypeName = "" \/ dtypeName = "Auto" THEN guessVariant(val)
    ELSE IF toDataType(dtypeName) = "" THEN guessVariant(val)
    ELSE toDataType(dtypeName)

\* byTopic and byNodeId, lines 66-77, of the configured items.
byTopicHas(key) == \E i \in Points : Items[i].topic = key
byTopicGet(key) == Items[CHOOSE i \in Points : Items[i].topic = key]
byNodeIdHas(id) == \E i \in Points : Items[i].nodeId = id
byNodeIdGet(id) == Items[CHOOSE i \in Points : Items[i].nodeId = id].topic

\* The messages a flow sends to the node.
Msgs == {m \in [action : {"read", "write"},
                 topic : {"", "t1", "ghost"},
                 nodeId : {"", "ns=1;s=X", "ns=9;s=Y"},
                 datatype : {"", "Double"},
                 payload : {Num(42)}] : m.action = "read" => m.datatype = ""}

NoRec == [topic |-> "", nodeId |-> "", dataType |-> ""]

\* let rec of lines 182-189 (read) and 200-206 (write).
Resolve(msg) ==
    IF msg.topic # "" /\ byTopicHas(msg.topic) THEN byTopicGet(msg.topic)
    ELSE IF msg.nodeId # ""
    THEN [topic |-> IF byNodeIdHas(msg.nodeId) THEN byNodeIdGet(msg.nodeId) ELSE msg.nodeId,
          nodeId |-> msg.nodeId,
          dataType |-> IF msg.action = "read" THEN "Auto"
                       ELSE IF msg.datatype # "" THEN msg.datatype ELSE "Auto"]
    ELSE NoRec

\* const dtypeName of line 209.
dtypeName(msg, rec) == IF msg.datatype # "" THEN msg.datatype ELSE rec.dataType

\* The call the handler awaits: session.read (line 191) or session.write
\* (lines 212-216) with the variant of line 210.
Request(msg, rec) ==
    [action |-> msg.action, topic |-> rec.topic, nodeId |-> rec.nodeId,
     dataType |-> IF msg.action = "read" THEN ""
                  ELSE toVariant(msg.payload, dtypeName(msg, rec)),
     payload |-> IF msg.action = "read" THEN JsNull ELSE msg.payload]

\* node.on("input"), lines 177-216, up to the await: a message whose point
\* does not resolve, or that finds no session, ends at line 190 or 207 with
\* done() alone.
ClientInput(msg) ==
    /\ nodeType = "opcua-client-nipper"
    /\ LET rec == Resolve(msg)
       IN  IF rec = NoRec \/ session = NULL
           THEN /\ lastInput' = "dropped"
                /\ UNCHANGED <<gctx, reqs>>
           ELSE /\ Cardinality(reqs) < MaxRequests
                /\ Request(msg, rec) \notin reqs
                /\ reqs' = reqs \cup {Request(msg, rec)}
                /\ lastInput' = "issued"
                /\ UNCHANGED gctx
    /\ sent' = NoMsg
    /\ UNCHANGED <<nodeType, stopping, status, loginVars, serverVars, reconnectTimer, client, session,
                   subscription, miMap, pc, mon, nextTimer, terminatedOn, lostArmed,
                   lastSched, cleanupEnd, monOk, remote, notified>>

\* The values a read returns: dv.value.value, or undefined (line 192).
ReadValues == {JsNull, Num(42)}

\* The awaited call settles, with a write path that stores the written
\* payload under the topic as the read path does at line 193.
RequestDone_WriteStores(r, ok, val) ==
    /\ nodeType = "opcua-client-nipper"
    /\ r \in reqs
    /\ reqs' = reqs \ {r}
    /\ IF ~ok
       THEN /\ lastInput' = "error"
            /\ sent' = NoMsg
            /\ UNCHANGED gctx
       ELSE /\ lastInput' = "sent"
            /\ gctx' = [gctx EXCEPT ![r.topic] = IF r.action = "read" THEN val ELSE r.payload]
            /\ sent' = [topic |-> r.topic, nodeId |-> r.nodeId,
                        payload |-> IF r.action = "read" THEN val ELSE r.payload]
    /\ UNCHANGED <<nodeType, stopping, status, loginVars, serverVars, reconnectTimer, client, session,
                   subscription, miMap, pc, mon, nextTimer, terminatedOn, lostArmed,
                   lastSched, cleanupEnd, monOk, remote, notified>>

\* The awaited call settles: lines 192-196 after a read, 218-219 after a
\* write, the catch of lines 220-223 when it rejects.
RequestDone(r, ok, val) ==
    /\ nodeType = "opcua-client-nipper"
    /\ r \in reqs
    /\ reqs' = reqs \ {r}
    /\ IF ~ok
       THEN /\ lastInput' = "error"
            /\ sent' = NoMsg
            /\ UNCHANGED gctx
       ELSE /\ lastInput' = "sent"
            /\ gctx' = IF r.action = "read" THEN [gctx EXCEPT ![r.topic] = val] ELSE gctx
            /\ sent' = [topic |-> r.topic, nodeId |-> r.nodeId,
                        payload |-> IF r.action = "read" THEN val ELSE r.payload]
    /\ UNCHANGED <<nodeType, stopping, status, loginVars, serverVars, reconnectTimer, client, session,
                   subscription, miMap, pc, mon, nextTimer, terminatedOn, lostArmed,
                   lastSched, cleanupEnd, monOk, remote, notified>>

\* --------------------------------------------- ClientNode: notifications
\* The value of the k-th sample the remote source takes of a point.
SampleValue(k) == Num(40 + k)

\* The remote source takes a new sample of point i.
RemoteChange(i) ==
    /\ nodeType = "opcua-client-nipper"
    /\ remote[i] < MaxSamples
    /\ remote' = [remote EXCEPT ![i] = @ + 1]
    /\ UNCHANGED <<nodeType, stopping, status, loginVars, serverVars, reconnectTimer, client, session,
                   subscription, miMap, pc, mon, nextTimer, terminatedOn, lostArmed,
                   lastSched, cleanupEnd, monOk, lastInput, gctx, reqs, sent, notified>>

\* The "changed" listener without the gctx.set of line 144.
Notification_NoStore(i, j) ==
    /\ nodeType = "opcua-client-nipper"
    /\ i \in miMap
    /\ j \in notified[i] + 1 .. remote[i]
    /\ notified' = [notified EXCEPT ![i] = j]
    /\ sent' = [topic |-> Items[i].topic, nodeId |-> Items[i].nodeId,
                payload |-> SampleValue(j)]
    /\ status' = "waarde"
    /\ UNCHANGED <<nodeType, stopping, loginVars, serverVars, reconnectTimer, client, session,
                   subscription, miMap, pc, mon, nextTimer, terminatedOn, lostArmed,
                   lastSched, cleanupEnd, monOk, lastInput, reqs, remote, gctx>>

\* mi.on("changed"), lines 142-147: the monitored item registered for point i
\* delivers sample j, one it has not delivered yet; with discardOldest the
\* samples before j are skipped.
Notification(i, j) ==
    /\ nodeType = "opcua-client-nipper"
    /\ i \in miMap
    /\ j \in notified[i] + 1 .. remote[i]
    /\ notified' = [notified EXCEPT ![i] = j]
    /\ gctx' = [gctx EXCEPT ![Items[i].topic] = SampleValue(j)]
    /\ sent' = [topic |-> Items[i].topic, nodeId |-> Items[i].nodeId,
                payload |-> SampleValue(j)]
    /\ status' = "waarde"
    /\ UNCHANGED <<nodeType, stopping, loginVars, serverVars, reconnectTimer, client, session,
                   subscription, miMap, pc, mon, nextTimer, terminatedOn, lostArmed,
                   lastSched, cleanupEnd, monOk, lastInput, reqs, remote>>

\* What the remote source answers to the read r: the sample it holds of the
\* point, and for a node that is no configured point its one value.
ReadResult(r) ==
    IF byNodeIdHas(r.nodeId)
    THEN SampleValue(remote[CHOOSE i \in Points : Items[i].nodeId = r.nodeId])
    ELSE SampleValue(1)

\* The messages of a flow that reads and writes the configured points.
DataMsgs == { m \in Msgs : m.datatype = "" /\ m.nodeId = "" /\ m.topic \in {"t1", "ghost"} }

InitClient(firstTimer) ==
    /\ stopping = FALSE
    /\ reconnectTimer = NULL
    /\ client = FirstProc
    /\ session = NULL
    /\ subscription = NULL
    /\ miMap = {}
    /\ pc = [p \in Procs |-> IF p = CloseProc THEN "idle"
                             ELSE IF p = FirstProc THEN "connect" ELSE "unused"]
    /\ mon = [p \in ConnectProcs |-> NULL]
    /\ nextTimer = firstTimer
    /\ terminatedOn = {}
    /\ lostArmed = FALSE
    /\ status = "verbinden"
    /\ lastSched = "none"
    /\ cleanupEnd = NoCleanup
    /\ monOk = {}
    /\ lastInput = "none"
    /\ gctx = [k \in StoreKeys |-> JsNull]
    /\ reqs = {}
    /\ sent = NoMsg
    /\ remote = [i \in Points |-> 1]
    /\ notified = [i \in Points |-> 0]

\* The client variables of a node that is no ClientNode.
NoClient ==
    /\ reconnectTimer = NULL
    /\ client = NULL
    /\ session = NULL
    /\ subscription = NULL
    /\ miMap = {}
    /\ pc = [p \in Procs |-> "unused"]
    /\ mon = [p \in ConnectProcs |-> NULL]
    /\ nextTimer = FirstProc + 1
    /\ terminatedOn = {}
    /\ lostArmed = FALSE
    /\ lastSched = "none"
    /\ cleanupEnd = NoCleanup
    /\ monOk = {}
    /\ lastInput = "none"
    /\ gctx = [k \in StoreKeys |-> JsNull]
    /\ reqs = {}
    /\ sent = NoMsg
    /\ remote = [i \in Points |-> 1]
    /\ notified = [i \in Points |-> 0]

\* ------------------------------------------------- LoginNode: the functions
DEFAULT_TTL_SECONDS == 1800
SKEW_SECONDS == 60

\* isExpired without the skew margin of line 57.
isExpired_NoSkew(expiresAtMillis, t) ==
    IF ~Truthy(expiresAtMillis) \/ expiresAtMillis.t # "number" THEN TRUE
    ELSE t >= expiresAtMillis.n

\* isExpired(expiresAtMillis), lines 53-58, at Date.now() = t.
isExpired(expiresAtMillis, t) ==
    IF ~Truthy(expiresAtMillis) \/ expiresAtMillis.t # "number" THEN TRUE
    ELSE t >= expiresAtMillis.n - SKEW_SECONDS * 1000

\* extractExpiry adding the time-to-live as milliseconds (line 72 without
\* its factor 1000).
extractExpiry_TtlAsMillis(pl, t) ==
    LET iso == OrElse(pl.expiresAt, OrElse(pl.expireAt, pl.validUntil))
        ttl == OrElse(pl.ttl, pl.expiresIn)
    IN  IF Truthy(iso) /\ iso.t = "string" /\ DateParse(iso.s).ok
        THEN Num(DateParse(iso.s).ms)
        ELSE IF Truthy(ttl) /\ ToNumber(ttl).ok
        THEN Num(t + ToNumber(ttl).n)
        ELSE Num(t + DEFAULT_TTL_SECONDS * 1000)

\* extractExpiry(body), lines 60-76, at Date.now() = t; pl is body.payload.
extractExpiry(pl, t) ==
    LET iso == OrElse(pl.expiresAt, OrElse(pl.expireAt, pl.validUntil))
        ttl == OrElse(pl.ttl, pl.expiresIn)
    IN  IF Truthy(iso) /\ iso.t = "string" /\ DateParse(iso.s).ok
        THEN Num(DateParse(iso.s).ms)
        ELSE IF Truthy(ttl) /\ ToNumber(ttl).ok
        THEN Num(t + ToNumber(ttl).n * 1000)
        ELSE Num(t + DEFAULT_TTL_SECONDS * 1000)

\* saveToken(token, retcode, expiresAtMillis), lines 105-109.
saveToken(token, retcode, expiresAtMillis) ==
    [token |-> OrElse(token, JsNull),
     retcode |-> IF retcode.t = "null" THEN JsNull ELSE retcode,
     expiresAt |-> OrElse(expiresAtMillis, JsNull)]

\* clearToken(), lines 111-113.
clearToken == saveToken(JsNull, JsNull, JsNull)

\* --------------------------------------------- LoginNode: the remote service
\* body.payload of a login response.
Payload(token, expiresAt, expireAt, validUntil, ttl, expiresIn) ==
    [sessiontoken |-> token, expiresAt |-> expiresAt, expireAt |-> expireAt,
     validUntil |-> validUntil, ttl |-> ttl, expiresIn |-> expiresIn]

NoPayload == Payload(JsNull, JsNull, JsNull, JsNull, JsNull, JsNull)

\* The expiry fields the remote service sends: none, or a time-to-live.
ExpiryFields ==
    { <<JsNull, JsNull, JsNull, JsNull, JsNull>>,
      <<JsNull, JsNull, JsNull, Num(60), JsNull>>,
      <<JsNull, JsNull, JsNull, Num(120), JsNull>> }

\* The payloads it sends: without a token, with an empty one, or with the
\* token "abc" and any of the expiry fields.
Payloads ==
    { Payload(tok, JsNull, JsNull, JsNull, JsNull, JsNull) : tok \in {JsNull, Str("")} }
    \cup
    { Payload(Str("abc"), e[1], e[2], e[3], e[4], e[5]) : e \in ExpiryFields }

HttpOutcome(error, st, text, retcode, hasPayload, payload) ==
    [error |-> error, status |-> st, text |-> text, retcode |-> retcode,
     hasPayload |-> hasPayload, payload |-> payload]

\* What the HTTP GET of httpGetJson can end in: a transport error or timeout,
\* or a status with a body text that is no JSON, a JSON scalar or a JSON object.
HttpOutcomes ==
    { HttpOutcome(TRUE, 0, "garbage", JsNull, FALSE, NoPayload),
      HttpOutcome(FALSE, 200, "garbage", JsNull, FALSE, NoPayload),
      HttpOutcome(FALSE, 500, "garbage", JsNull, FALSE, NoPayload),
      HttpOutcome(FALSE, 200, "scalar", JsNull, FALSE, NoPayload) }
    \cup
    { HttpOutcome(FALSE, 200, "object", rc, FALSE, NoPayload) :
        rc \in {JsNull, Num(0), Num(5)} }
    \cup
    { HttpOutcome(FALSE, 200, "object", rc, TRUE, pl) :
        rc \in {JsNull, Num(0), Num(5)}, pl \in Payloads }
    \cup
    { HttpOutcome(FALSE, 500, "object", rc, FALSE, NoPayload) : rc \in {Num(0), Num(5)} }
    \cup
    { HttpOutcome(FALSE, 500, "object", rc, TRUE,
                  Payload(Str("abc"), JsNull, JsNull, JsNull, JsNull, JsNull)) :
        rc \in {Num(0), Num(5)} }

\* httpGetJson(urlStr), lines 12-39: the promise rejects, or resolves with the
\* status and the parsed body, null when JSON.parse throws (line 31).
httpGetJson(o) ==
    [rejected |-> o.error,
     status |-> o.status,
     body |-> [null |-> o.text = "garbage",
               object |-> o.text = "object",
               retcode |-> IF o.text = "object" THEN o.retcode ELSE JsNull,
               hasPayload |-> o.text = "object" /\ o.hasPayload,
               payload |-> IF o.text = "object" /\ o.hasPayload THEN o.payload
                           ELSE NoPayload]]

\* doLogin(), lines 120-138, once httpGetJson has resolved with res at
\* Date.now() = t: what is saved, the node status and the result returned.
doLogin(res, t) ==
    IF res.status # 200 \/ res.body.null \/ ~res.body.object
    THEN [auth |-> clearToken, text |-> "http", ok |-> FALSE,
          retcode |-> res.body.retcode]
    ELSE IF /\ res.body.retcode = Num(0)
            /\ res.body.hasPayload
            /\ Truthy(res.body.payload.sessiontoken)
    THEN [auth |-> saveToken(res.body.payload.sessiontoken, res.body.retcode,
                             extractExpiry(res.body.payload, t)),
          text |-> "token ok", ok |-> TRUE, retcode |-> res.body.retcode]
    ELSE [auth |-> saveToken(JsNull, res.body.retcode, JsNull),
          text |-> "retcode", ok |-> FALSE, retcode |-> res.body.retcode]

\* ------------------------------------------------- LoginNode: the actions
clientVarsOfLogin == <<reconnectTimer, client, session, subscription, miMap, pc, mon,
                       nextTimer, terminatedOn, lostArmed, lastSched, cleanupEnd,
                       monOk, lastInput, gctx, reqs, sent, remote, notified, serverVars>>

NoStored == [ok |-> FALSE, at |-> 0, payload |-> NoPayload]
Callers == {"start", "poll", "input"}

\* The test of line 143.
Reuses(force) == ~force /\ Truthy(auth.token) /\ ~isExpired(auth.expiresAt, now)

\* ensureToken({force}), lines 141-149, with doLogin up to its await (lines
\* 116-118): the saved token is returned as reused, or a login call is issued.
ensureToken(caller, force) ==
    /\ nodeType = "login"
    /\ IF Reuses(force)
       THEN /\ lastAct' = [op |-> "ensure", caller |-> caller, force |-> force,
                           result |-> "reused", token |-> auth.token]
            /\ status' = IF caller = "poll" THEN "token valid" ELSE status
            /\ UNCHANGED inflight
       ELSE /\ Len(inflight) < MaxInflight
            /\ inflight' = Append(inflight, caller)
            /\ lastAct' = [op |-> "ensure", caller |-> caller, force |-> force,
                           result |-> "login", token |-> JsNull]
            /\ status' = "logging in"
    /\ UNCHANGED <<auth, now, timer, stored, stopping, nodeType, clientVarsOfLogin,
                   overtaken, preLogout>>

\* The input handler with a logout (lines 177-183) that clears the token and
\* its expiry through saveToken(null, retcode, null), as a failed login does.
LoginInput_KeepRetcode(action) ==
    /\ nodeType = "login"
    /\ ~stopping
    /\ IF action = "logout"
       THEN /\ auth' = saveToken(JsNull, auth.retcode, JsNull)
            /\ lastAct' = [op |-> "logout", caller |-> "input", force |-> FALSE,
                           result |-> "logged out", token |-> JsNull]
            /\ stored' = NoStored
            /\ status' = "logged out"
            /\ overtaken' = 0
            /\ preLogout' = Len(inflight)
            /\ UNCHANGED <<now, inflight, timer, stopping, nodeType, clientVarsOfLogin>>
       ELSE ensureToken("input", action = "force")

\* node.on("input"), lines 173-186: logout, or ensureToken forced or not.
LoginInput(action) ==
    /\ nodeType = "login"
    /\ ~stopping
    /\ IF action = "logout"
       THEN /\ auth' = clearToken
            /\ lastAct' = [op |-> "logout", caller |-> "input", force |-> FALSE,
                           result |-> "logged out", token |-> JsNull]
            /\ stored' = NoStored
            /\ status' = "logged out"
            /\ overtaken' = 0
            /\ preLogout' = Len(inflight)
            /\ UNCHANGED <<now, inflight, timer, stopping, nodeType, clientVarsOfLogin>>
       ELSE ensureToken("input", action = "force")

\* The setInterval callback of startPoll, lines 153-164.
PollTick ==
    /\ nodeType = "login"
    /\ timer
    /\ IF stopping THEN UNCHANGED vars ELSE ensureToken("poll", FALSE)

\* The i-th awaited httpGetJson call settles with outcome o: the rest of
\* doLogin (lines 118-138) and of its caller (lines 188-222, 157-163, 226-229).
\* result is what the caller gets: the token, the failure, or the exception.
LoginDone(i, o) ==
    /\ nodeType = "login"
    /\ i \in 1 .. Len(inflight)
    /\ LET caller == inflight[i]
           res == httpGetJson(o)
           d == doLogin(res, now)
       IN  /\ inflight' = SubSeq(inflight, 1, i - 1) \o SubSeq(inflight, i + 1, Len(inflight))
           /\ IF res.rejected
              THEN /\ lastAct' = [op |-> "done", caller |-> caller, force |-> FALSE,
                                  result |-> "error", token |-> JsNull]
                   /\ status' = (CASE caller = "input" -> "error"
                                   [] caller = "poll" -> "login error"
                                   [] caller = "start" -> "start error")
                   /\ overtaken' = IF i <= overtaken THEN overtaken - 1 ELSE overtaken
                   /\ UNCHANGED <<auth, stored>>
              ELSE /\ auth' = d.auth
                   /\ overtaken' = i - 1
                   /\ status' = d.text
                   /\ stored' = IF d.ok
                                THEN [ok |-> TRUE, at |-> now, payload |-> res.body.payload]
                                ELSE NoStored
                   /\ lastAct' = [op |-> "done", caller |-> caller, force |-> FALSE,
                                  result |-> IF d.ok THEN "token" ELSE "failed",
                                  token |-> IF d.ok THEN res.body.payload.sessiontoken
                                            ELSE JsNull]
           /\ preLogout' = IF i <= preLogout THEN preLogout - 1 ELSE preLogout
    /\ UNCHANGED <<now, timer, stopping, nodeType, clientVarsOfLogin>>

NoAct(op) == [op |-> op, caller |-> "none", force |-> FALSE, result |-> "none",
              token |-> JsNull]

\* Time passes.
Tick ==
    /\ nodeType = "login"
    /\ now + TickMs <= MaxNow
    /\ now' = now + TickMs
    /\ lastAct' = NoAct("tick")
    /\ UNCHANGED <<auth, inflight, timer, stored, stopping, status, nodeType,
                   clientVarsOfLogin, overtaken, preLogout>>

\* node.on("close"), lines 233-237, with stopPoll (lines 167-169).
LoginClose ==
    /\ nodeType = "login"
    /\ ~stopping
    /\ stopping' = TRUE
    /\ timer' = FALSE
    /\ lastAct' = NoAct("close")
    /\ UNCHANGED <<auth, now, inflight, stored, status, nodeType, clientVarsOfLogin,
                   overtaken, preLogout>>

\* The login variables of a node that is no LoginNode.
NoLogin ==
    /\ auth = clearToken
    /\ now = 0
    /\ inflight = <<>>
    /\ timer = FALSE
    /\ stored = NoStored
    /\ lastAct = [op |-> "none", caller |-> "none", force |-> FALSE, result |-> "none",
                  token |-> JsNull]
    /\ overtaken = 0
    /\ preLogout = 0

\* The context store a LoginNode finds: empty, or the token a LoginNode
\* deployed before it saved.
InitStores == {clearToken, saveToken(Str("old"), Num(0), Num(90000))}

\* The LoginNode constructor, lines 78-231: the start-up ensureToken call of
\* line 226 has reused the saved token or issued a login call, and startPoll
\* has set the interval when pollSeconds > 0.
InitLogin ==
    /\ stopping = FALSE
    /\ auth \in InitStores
    /\ now = 0
    /\ timer \in BOOLEAN
    /\ stored = NoStored
    /\ overtaken = 0
    /\ preLogout = 0
    /\ IF Truthy(auth.token) /\ ~isExpired(auth.expiresAt, now)
       THEN /\ inflight = <<>>
            /\ status = "idle"
            /\ lastAct = [op |-> "ensure", caller |-> "start", force |-> FALSE,
                          result |-> "reused", token |-> auth.token]
       ELSE /\ inflight = <<"start">>
            /\ status = "logging in"
            /\ lastAct = [op |-> "ensure", caller |-> "start", force |-> FALSE,
                          result |-> "login", token |-> JsNull]

\* ------------------------------------------------------- OpcUaServerNode
\* Start call 1 is the startServer() call of the constructor (line 164), start
\* calls 2.. are those of "start" messages that found no server, in order.
FirstStart == 1
StartProcs == FirstStart .. (FirstStart + MaxStarts)

\* config.variables (lines 16-24): name, topic and dataType as the editor
\* saved them; an empty topic stands for a variable configured without one.
Variables == << [name |-> "Temp", topic |-> "temp", dataType |-> "Double"],
               [name |-> "t1", topic |-> "", dataType |-> "String"] >>

\* const topic = cfg.topic || name, line 105.
VarTopic(cfg) == IF cfg.topic # "" THEN cfg.topic ELSE cfg.name

\* The dtype recorded in nodeMap for a topic, lines 106 and 144.
VarType(topic) ==
    LET i == CHOOSE j \in 1 .. Len(Variables) : VarTopic(Variables[j]) = topic
    IN  Variables[i].dataType

NaN == [t |-> "number", n |-> 0, s |-> "NaN"]

\* String(v) on the payloads of the model's messages.
StringOf(x) ==
    CASE x.t = "string" -> x.s
      [] x.t = "number" /\ x.n = 42 -> "42"
      [] x.t = "number" /\ x.n = 0 -> "0"
      [] OTHER -> "null"

\* defaultFor(dtype), lines 50-55, for the configured types.
defaultFor(dtype) == IF dtype = "String" THEN Str("") ELSE Num(0)

\* coerce(dtype, v), lines 57-76, for numbers and strings.
coerce(dtype, v) ==
    CASE dtype \in {"SByte", "Byte", "Int16", "UInt16", "Int32", "UInt32", "Float", "Double"} ->
             (LET r == ToNumber(v) IN IF r.ok THEN Num(r.n) ELSE NaN)
      [] dtype = "String" -> Str(StringOf(v))
      [] OTHER -> v

NoReply == [payload |-> "", topic |-> JsNull, value |-> JsNull]
Reply(text) == [payload |-> text, topic |-> JsNull, value |-> JsNull]

\* The client and login variables that the server handlers leave unchanged.
otherVarsOfServer == <<stopping, reconnectTimer, client, session, subscription, miMap, pc,
                       mon, nextTimer, terminatedOn, lostArmed, lastSched, cleanupEnd,
                       monOk, lastInput, reqs, sent, remote, notified, loginVars>>

\* The catch of a startServer call that rejected: line 164-167 for the
\* constructor's call, lines 221-225 for the call of a "start" message.
\* The server variable keeps the object that line 81 assigned.
startFailed(p) ==
    /\ startPc' = [startPc EXCEPT ![p] = "failed"]
    /\ status' = IF p = FirstStart THEN "start fout" ELSE "fout"
    /\ UNCHANGED <<server, stops, reply>>

\* The forEach of lines 103-145 up to and including variable k: the global
\* context gets the default of a variable that has no value yet.
RECURSIVE addVariables(_, _)
addVariables(g, k) ==
    IF k = 0 THEN g
    ELSE LET cfg == Variables[k]
             topic == VarTopic(cfg)
             h == addVariables(g, k - 1)
         IN  IF h[topic] = JsNull
             THEN [h EXCEPT ![topic] = defaultFor(cfg.dataType)]
             ELSE h

\* startServer after await server.initialize(), lines 93-147. The await
\* rejected, or the server variable is null by now (line 95 throws), or it
\* holds the object of another start call and the library throws at line 95
\* ("engine") or at the first addVariable of line 118; otherwise the address
\* space is filled and server.start() is awaited.
InitializeDone(p, ok, throws) ==
    /\ nodeType = "opcua-server-Nipper"
    /\ startPc[p] = "initialize"
    /\ throws # "no" => server \notin {NULL, p}
    /\ IF ~ok \/ server = NULL \/ throws = "engine"
       THEN /\ startFailed(p)
            /\ UNCHANGED <<nodeMap, gctx>>
       ELSE IF throws = "addVariable"
       THEN /\ startFailed(p)
            /\ nodeMap' = {}
            /\ gctx' = addVariables(gctx, 1)
       ELSE /\ nodeMap' = {VarTopic(Variables[k]) : k \in 1 .. Len(Variables)}
            /\ gctx' = addVariables(gctx, Len(Variables))
            /\ startPc' = [startPc EXCEPT ![p] = "start"]
            /\ UNCHANGED <<server, stops, reply, status>>
    /\ UNCHANGED <<nodeType, otherVarsOfServer>>

\* startServer after await server.start(), lines 147-150, and the rest of the
\* "start" branch of the input handler (lines 175-177). Line 148 throws when
\* the server variable is null by now, and can throw when it holds the
\* object of another start call.
StartDone(p, ok, throws) ==
    /\ nodeType = "opcua-server-Nipper"
    /\ startPc[p] = "start"
    /\ throws => server \notin {NULL, p}
    /\ IF ~ok \/ server = NULL \/ throws
       THEN startFailed(p)
       ELSE /\ startPc' = [startPc EXCEPT ![p] = "running"]
            /\ status' = "draait op"
            /\ reply' = Reply(IF p = FirstStart THEN "OPC UA server draait op" ELSE "gestart")
            /\ UNCHANGED <<server, stops>>
    /\ UNCHANGED <<nodeType, nodeMap, gctx, otherVarsOfServer>>

\* The messages of the model: a start, a stop, or a value for a configured
\* topic, for an unknown topic or without topic.
ServerMsgs ==
    { m \in [action : {"start", "stop", ""}, topic : {JsNull, Str("temp"), Str("t1"), Str("ghost")},
             payload : {Num(42), Str("60")}] :
        m.action # "" => (m.topic = JsNull /\ m.payload = Num(42)) }

\* startServer() called by the input handler, lines 78-93 up to the await,
\* and line 175 when it returned at line 79.
startServer ==
    IF server # NULL
    THEN /\ reply' = Reply("gestart")
         /\ UNCHANGED <<server, nodeMap, gctx, status, startPc, stops>>
    ELSE \E p \in StartProcs :
             /\ startPc[p] = "unused"
             /\ \A q \in StartProcs : q < p => startPc[q] # "unused"
             /\ server' = p
             /\ startPc' = [startPc EXCEPT ![p] = "initialize"]
             /\ UNCHANGED <<nodeMap, gctx, status, stops, reply>>

\* stopServer(), lines 153-159 up to the await, called by caller.
stopServer(caller) ==
    /\ server # NULL
    /\ server' = NULL
    /\ status' = "stoppen"
    /\ stops' = Append(stops, caller)

\* node.on("input"), lines 169-226.
ServerInput(msg) ==
    /\ nodeType = "opcua-server-Nipper"
    /\ startPc[CloseProc] = "idle"
    /\ CASE msg.action = "start" -> startServer
         [] msg.action = "stop" ->
              IF server = NULL
              THEN /\ reply' = Reply("gestopt")
                   /\ UNCHANGED <<server, nodeMap, gctx, status, startPc, stops>>
              ELSE /\ stopServer("input")
                   /\ UNCHANGED <<nodeMap, gctx, startPc, reply>>
         [] OTHER ->
              IF server = NULL
              THEN /\ status' = "niet actief"
                   /\ reply' = Reply("server niet actief")
                   /\ UNCHANGED <<server, nodeMap, gctx, startPc, stops>>
              ELSE IF msg.topic = JsNull
              THEN /\ reply' = Reply("geen topic")
                   /\ UNCHANGED <<server, nodeMap, gctx, status, startPc, stops>>
              ELSE IF msg.topic.s \notin nodeMap
              THEN /\ reply' = Reply("onbekend topic")
                   /\ UNCHANGED <<server, nodeMap, gctx, status, startPc, stops>>
              ELSE LET val == coerce(VarType(msg.topic.s), msg.payload)
                   IN  /\ gctx' = [gctx EXCEPT ![msg.topic.s] = val]
                       /\ status' = "waarde"
                       /\ reply' = [payload |-> "ok", topic |-> msg.topic, value |-> val]
                       /\ UNCHANGED <<server, nodeMap, startPc, stops>>
    /\ UNCHANGED <<nodeType, otherVarsOfServer>>

\* The i-th awaited shutdown settles: the rest of stopServer (lines 160-161)
\* and of its caller (lines 181-183, or done() of line 229).
StopDone(i) ==
    /\ nodeType = "opcua-server-Nipper"
    /\ i \in 1 .. Len(stops)
    /\ stops' = SubSeq(stops, 1, i - 1) \o SubSeq(stops, i + 1, Len(stops))
    /\ status' = "gestopt"
    /\ IF stops[i] = "close"
       THEN /\ startPc' = [startPc EXCEPT ![CloseProc] = "closed"]
            /\ UNCHANGED reply
       ELSE /\ reply' = Reply("gestopt")
            /\ UNCHANGED startPc
    /\ UNCHANGED <<nodeType, server, nodeMap, gctx, otherVarsOfServer>>

\* node.on("close"), lines 228-230.
ServerClose ==
    /\ nodeType = "opcua-server-Nipper"
    /\ startPc[CloseProc] = "idle"
    /\ IF server = NULL
       THEN /\ startPc' = [startPc EXCEPT ![CloseProc] = "closed"]
            /\ UNCHANGED <<server, status, stops>>
       ELSE /\ stopServer("close")
            /\ startPc' = [startPc EXCEPT ![CloseProc] = "closing"]
    /\ UNCHANGED <<nodeType, nodeMap, gctx, reply, otherVarsOfServer>>

\* The server variables of a node that is no OpcUaServerNode.
NoServer ==
    /\ server = NULL
    /\ nodeMap = {}
    /\ startPc = [p \in {CloseProc} \cup StartProcs |-> "unused"]
    /\ stops = <<>>
    /\ reply = NoReply

\* The OpcUaServerNode constructor, lines 5-167: the startServer() call of
\* line 164 has created the server object and awaits its initialize().
InitServer ==
    /\ server = FirstStart
    /\ nodeMap = {}
    /\ startPc = [p \in {CloseProc} \cup StartProcs |->
                    IF p = CloseProc THEN "idle"
                    ELSE IF p = FirstStart THEN "initialize" ELSE "unused"]
    /\ stops = <<>>
    /\ reply = NoReply

InitClientNode ==
    /\ nodeType = "opcua-client-nipper"
    /\ InitClient(FirstProc + 1)
    /\ NoLogin
    /\ NoServer

\* A ClientNode that has one reconnect timer left to create.
InitClientIO ==
    /\ nodeType = "opcua-client-nipper"
    /\ InitClient(LastProc)
    /\ NoLogin
    /\ NoServer

\* The login responses that succeed, with every combination of the expiry
\* fields absent, invalid and valid.
IsoValues == {JsNull, Str("garbage"), Str("1970-01-01T00:03:00.000Z"),
              Str("1970-01-01T00:00:30.000Z")}

TtlValues == {JsNull, Str("abc"), Num(60), Str("120")}

ExpiryPayloads ==
    { Payload(Str("abc"), a, b, c, d, e) :
        a \in IsoValues, b \in IsoValues, c \in IsoValues, d \in TtlValues, e \in TtlValues }

ExpiryOutcomes ==
    { HttpOutcome(FALSE, 200, "object", Num(0), TRUE, pl) : pl \in ExpiryPayloads }

\* A LoginNode deployed on an empty store, without poll: its start-up login
\* call is awaited.
InitLoginExpiry ==
    /\ nodeType = "login"
    /\ InitLogin
    /\ auth = clearToken
    /\ timer = FALSE
    /\ NoClient
    /\ NoServer

InitLoginNode ==
    /\ nodeType = "login"
    /\ InitLogin
    /\ NoClient
    /\ NoServer

Init == InitClientNode \/ InitLoginNode

NextLogin ==
    \/ \E action \in {"logout", "force", ""} : LoginInput(action)
    \/ PollTick
    \/ \E i \in 1 .. MaxInflight, o \in HttpOutcomes : LoginDone(i, o)
    \/ Tick
    \/ LoginClose

NextClient ==
    \/ \E p \in ConnectProcs, ok \in BOOLEAN : ConnectDone(p, ok)
    \/ \E p \in ConnectProcs, ok \in BOOLEAN : SessionDone(p, ok)
    \/ \E p \in ConnectProcs, ok \in BOOLEAN : MonitorDone(p, ok)
    \/ \E p \in TimerProcs : TimerFire(p)
    \/ \E p \in Procs : CleanupResume(p)
    \/ Close
    \/ ConnectionLost
    \/ \E c \in ConnectProcs : ConnectionLostUnheard(c)
    \/ \E sub \in ConnectProcs : SubTerminated(sub)

\* The connection manager with the messages of its flow.
NextClientIO ==
    \/ NextClient
    \/ \E msg \in Msgs : ClientInput(msg)
    \/ \E r \in reqs, ok \in BOOLEAN, val \in ReadValues : RequestDone(r, ok, val)

\* The connection manager from its start to the end of the first reconnect
\* delay, with the messages of its flow and the samples and notifications of
\* the remote source.
NextClientData ==
    \/ \E p \in ConnectProcs, ok \in BOOLEAN : ConnectDone(p, ok)
    \/ \E p \in ConnectProcs, ok \in BOOLEAN : SessionDone(p, ok)
    \/ \E p \in ConnectProcs, ok \in BOOLEAN : MonitorDone(p, ok)
    \/ \E p \in Procs : CleanupResume(p)
    \/ Close
    \/ ConnectionLost
    \/ \E sub \in ConnectProcs : SubTerminated(sub)
    \/ \E msg \in DataMsgs : ClientInput(msg)
    \/ \E r \in reqs, ok \in BOOLEAN : RequestDone(r, ok, ReadResult(r))
    \/ \E i \in Points : RemoteChange(i)
    \/ \E i \in Points, j \in 1 .. MaxSamples : Notification(i, j)

Next == NextClient \/ NextLogin

Spec == Init /\ [][Next]_vars

\* One connection manager alone.
SpecClient == InitClientNode /\ [][NextClient]_vars

\* One connection manager that serves reads and writes, followed over its first
\* connection and one reconnect.
SpecClientIO == InitClientIO /\ [][NextClientIO]_vars

\* The start-up login of a token cache, answered at any time with any of the
\* responses that succeed.
NextLoginExpiry ==
    \/ Tick
    \/ \E o \in ExpiryOutcomes : LoginDone(1, o)

SpecLoginExpiry == InitLoginExpiry /\ [][NextLoginExpiry]_vars

SpecClientData == InitClientIO /\ [][NextClientData]_vars

\* One token cache alone.
SpecLogin == InitLoginNode /\ [][NextLogin]_vars

\* One OPC UA server node: the global context it finds is empty or holds a
\* value for the topic "temp".
InitServerNode ==
    /\ nodeType = "opcua-server-Nipper"
    /\ InitServer
    /\ stopping = FALSE
    /\ status = ""
    /\ NoLogin
    /\ \E g \in {JsNull, Num(7)} :
           /\ gctx = [k \in StoreKeys |-> IF k = "temp" THEN g ELSE JsNull]
           /\ reconnectTimer = NULL /\ client = NULL /\ session = NULL
           /\ subscription = NULL /\ miMap = {}
           /\ pc = [p \in Procs |-> "unused"]
           /\ mon = [p \in ConnectProcs |-> NULL]
           /\ nextTimer = FirstProc + 1
           /\ terminatedOn = {} /\ lostArmed = FALSE /\ lastSched = "none"
           /\ cleanupEnd = NoCleanup /\ monOk = {} /\ lastInput = "none"
           /\ reqs = {} /\ sent = NoMsg
           /\ remote = [i \in Points |-> 1]
           /\ notified = [i \in Points |-> 0]

NextServer ==
    \/ \E msg \in ServerMsgs : ServerInput(msg)
    \/ \E p \in StartProcs : \E ok \in BOOLEAN :
          \E throws \in {"no", "engine", "addVariable"} : InitializeDone(p, ok, throws)
    \/ \E p \in StartProcs : \E ok, throws \in BOOLEAN : StartDone(p, ok, throws)
    \/ \E i \in 1 .. (MaxStarts + 1) : StopDone(i)
    \/ ServerClose

SpecServer == InitServerNode /\ [][NextServer]_vars

\* ------------------------------------------------------------------ claims
PendingTimers == {p \in TimerProcs : pc[p] = "timer"}

\* C1: at most one reconnect timer is pending at any time, it is the one
\* reconnectTimer holds, and while it is pending no step (a scheduleReconnect
\* call from the catch block, the "terminated" listener or the
\* "connection_lost" listener) creates a timer or replaces the pending one.
C1_OneReconnectPending ==
    /\ [](/\ Cardinality(PendingTimers) <= 1
          /\ PendingTimers = (IF reconnectTimer = NULL THEN {} ELSE {reconnectTimer}))
    /\ [][reconnectTimer # NULL =>
            /\ nextTimer' = nextTimer
            /\ reconnectTimer' \in {reconnectTimer, NULL}]_vars

\* A second scheduleReconnect call arrived while the timer was pending.
C1_Witness ==
    /\ lastSched = "pending"
    /\ reconnectTimer # NULL
    /\ pc[reconnectTimer] = "timer"

\* C2: at most one remote login call is in flight at any time, whichever of
\* the start-up check, the poll tick and the input handler called ensureToken.
C2_OneLoginInFlight == Len(inflight) <= 1

\* The expiry Auth.ExpiresAt holds, in milliseconds (null counts as 0, as in
\* JavaScript arithmetic).
ExpiresAtMs == IF auth.expiresAt.t = "number" THEN auth.expiresAt.n ELSE 0

\* C3: an ensureToken call issues a login call if and only if force is set,
\* or no token is stored, or now >= ExpiresAt - 60 s; otherwise it returns
\* the stored token as reused and leaves the store and the calls in flight
\* alone.  With 90 s left of a 120 s token (30 s after the login) an unforced
\* call reuses, with 55 s left (65 s after the login) it logs in.
C3_EnsureDecision ==
    [][\A c \in Callers, f \in BOOLEAN :
         ensureToken(c, f) =>
            LET login == f \/ auth.token = JsNull \/ now >= ExpiresAtMs - 60000
            IN  /\ inflight' = Append(inflight, c) <=> login
                /\ lastAct'.result = "login" <=> login
                /\ ~login => /\ lastAct'.result = "reused"
                             /\ lastAct'.token = auth.token
                             /\ inflight' = inflight
                             /\ auth' = auth
                /\ (~f /\ auth.token # JsNull /\ ExpiresAtMs = now + 90000)
                      => lastAct'.result = "reused"
                /\ (~f /\ auth.token # JsNull /\ ExpiresAtMs = now + 55000)
                      => lastAct'.result = "login"]_vars

\* 65 s after a login that stored a token expiring after 120 s, an unforced
\* ensureToken call has just issued a login call.
C3_Witness ==
    /\ lastAct.op = "ensure" /\ ~lastAct.force /\ lastAct.result = "login"
    /\ stored.ok
    /\ auth.token # JsNull
    /\ auth.expiresAt = Num(stored.at + 120000)
    /\ now = stored.at + 65000

\* The payload {"sessiontoken":"abc","ttl":60}.
TtlSixty == Payload(Str("abc"), JsNull, JsNull, JsNull, Num(60), JsNull)

\* C4 as stated: after a login that returned token "abc" with only ttl 60,
\* ExpiresAt is the login time plus 60 s and an unforced ensureToken call 10 s
\* after the login returns the token "abc" as reused, without a login call.
C4_ReusedAfterTenSeconds ==
    /\ [](stored.ok /\ stored.payload = TtlSixty =>
            auth.token = Str("abc") /\ auth.expiresAt = Num(stored.at + 60000))
    /\ [][\A c \in Callers :
            (/\ ensureToken(c, FALSE)
             /\ stored.ok /\ stored.payload = TtlSixty
             /\ now = stored.at + 10000) =>
               /\ lastAct'.result = "reused"
               /\ lastAct'.token = Str("abc")
               /\ inflight' = inflight]_vars

\* C4 as amended: ExpiresAt is the login time plus 60 s, and an unforced
\* ensureToken call 10 s after the login does not reuse the token: it issues
\* a login call, because now >= ExpiresAt - 60 s holds from the login on.
C4_TtlSixtyExpiresUnderSkew ==
    /\ [](stored.ok /\ stored.payload = TtlSixty =>
            auth.token = Str("abc") /\ auth.expiresAt = Num(stored.at + 60000))
    /\ [][\A c \in Callers :
            (/\ ensureToken(c, FALSE)
             /\ stored.ok /\ stored.payload = TtlSixty
             /\ now = stored.at + 10000) =>
               /\ lastAct'.result = "login"
               /\ inflight' = Append(inflight, c)]_vars

\* 10 s after a login with token "abc" and ttl 60, an unforced ensureToken
\* call has just been made.
C4_Witness ==
    /\ lastAct.op = "ensure" /\ ~lastAct.force
    /\ stored.ok /\ stored.payload = TtlSixty
    /\ auth.token = Str("abc")
    /\ now = stored.at + 10000

\* C5: the close handler sets stopping in the step that starts its teardown;
\* while stopping is set no reconnect timer is pending and none is created, no
\* reconnect callback starts a connect attempt, and no poll tick calls
\* ensureToken.
C5_StoppedStaysStopped ==
    /\ [](pc[CloseProc] \in CleanupPcs \cup {"closed"} => stopping)
    /\ [](stopping => reconnectTimer = NULL /\ PendingTimers = {})
    /\ [][stopping =>
            /\ nextTimer' = nextTimer
            /\ \A p \in ConnectProcs : pc'[p] = "connect" => pc[p] = "connect"
            /\ ~ensureToken("poll", FALSE)]_vars

\* A reconnect callback that was awaiting cleanup when close was requested
\* has returned from connectOnce without connecting.
C5_Witness ==
    /\ stopping
    /\ \E p \in TimerProcs : pc[p] = "aborted"

\* A login call that fails, as the remote service defines failure.
LoginFails(o) ==
    \/ o.error
    \/ o.status \notin 200 .. 299
    \/ o.text # "object"
    \/ o.retcode # Num(0)
    \/ ~o.hasPayload
    \/ o.payload.sessiontoken \in {JsNull, Str("")}

\* C10: after a login call that fails, Auth.SessionToken and Auth.ExpiresAt
\* are null, and Auth.Retcode is the return code of the response when the
\* response carried one.
C10_FailureClearsToken ==
    [][\A i \in 1 .. MaxInflight, o \in HttpOutcomes :
         (LoginDone(i, o) /\ LoginFails(o)) =>
            /\ auth'.token = JsNull
            /\ auth'.expiresAt = JsNull
            /\ (~o.error /\ o.text = "object" /\ o.retcode # JsNull)
                  => auth'.retcode = o.retcode]_vars

\* C6: after close was requested nothing reactivates the manager: no session
\* or subscription handle is set, no monitored item is registered, no
\* "verbonden" status is reported, and once the teardown of the close handler
\* has returned client, session and subscription stay null.
C6_NoReactivation ==
    /\ [][stopping =>
            /\ session' # session => session' = NULL
            /\ subscription' # subscription => subscription' = NULL
            /\ miMap' \subseteq miMap
            /\ status' = "verbonden" => status = "verbonden"]_vars
    /\ [](pc[CloseProc] = "closed" =>
            client = NULL /\ session = NULL /\ subscription = NULL)

\* C7: cleanup awaits the teardown of the subscription, then of the session,
\* then of the client, never backwards, and when it returns subscription,
\* session and client are null and the registry is empty.
C7_CleanupLeavesDisconnected ==
    /\ [][\A p \in Procs :
            /\ pc[p] = "cl_sess" => pc'[p] # "cl_sub"
            /\ pc[p] = "cl_client" => pc'[p] \notin {"cl_sub", "cl_sess"}]_vars
    /\ [](cleanupEnd.done =>
            /\ cleanupEnd.subscription = NULL
            /\ cleanupEnd.session = NULL
            /\ cleanupEnd.client = NULL
            /\ cleanupEnd.miMap = {})

\* C8: in a connect attempt the monitored items are created for every point
\* in registration order; when the creation for a point settles, resolved or
\* rejected, the next point's creation is awaited, after the last one the
\* attempt ends established with exactly the created items in the registry,
\* and the step schedules no reconnect.
C8_BestEffortSubscribe ==
    [][\A p \in ConnectProcs :
         (pc[p] = "monitor" /\ (pc'[p] # "monitor" \/ mon'[p] # mon[p])) =>
            /\ mon[p] < NPoints => pc'[p] = "monitor" /\ mon'[p] = mon[p] + 1
            /\ mon[p] = NPoints => pc'[p] = "active" /\ miMap' = monOk'
            /\ reconnectTimer' = reconnectTimer]_vars

\* The absolute expiry fields of a payload that parse as a date-time, in
\* milliseconds, and its time-to-live fields that are numbers, in seconds.
ValidAbsolute(pl) ==
    { DateParse(f.s).ms : f \in { g \in {pl.expiresAt, pl.expireAt, pl.validUntil} :
                                     g.t = "string" /\ DateParse(g.s).ok } }

ValidTtl(pl) ==
    { ToNumber(f).n : f \in { g \in {pl.ttl, pl.expiresIn} :
                                 g.t # "null" /\ ToNumber(g).ok } }

\* C11: after a login that succeeded Auth.ExpiresAt is the time of an absolute
\* expiry field that is present and parses as a date-time; without one it is
\* the login time plus a time-to-live field that is present, in seconds;
\* without one it is the login time plus 30 minutes.
C11_ExpiryPrecedence ==
    stored.ok =>
        /\ auth.expiresAt.t = "number"
        /\ IF ValidAbsolute(stored.payload) # {}
           THEN auth.expiresAt.n \in ValidAbsolute(stored.payload)
           ELSE IF ValidTtl(stored.payload) # {}
           THEN auth.expiresAt.n \in { stored.at + s * 1000 : s \in ValidTtl(stored.payload) }
           ELSE auth.expiresAt.n = stored.at + 30 * 60 * 1000

\* C12: a logout request, in any state of the token cache, sets
\* Auth.SessionToken, Auth.Retcode and Auth.ExpiresAt to null, issues no
\* remote call and is answered with the response "logged out".
C12_LogoutClears ==
    [][LoginInput("logout") =>
         /\ auth'.token = JsNull /\ auth'.retcode = JsNull /\ auth'.expiresAt = JsNull
         /\ inflight' = inflight
         /\ lastAct'.op = "logout" /\ lastAct'.result = "logged out"]_vars

\* A logout has just been handled, some time after start-up, while a login
\* call was awaited.
C12_Witness ==
    /\ lastAct.op = "logout"
    /\ inflight # <<>>
    /\ auth = clearToken
    /\ now > 0

\* C13: a notification delivered for a monitored point writes the notified
\* value into the store under the topic of the point and sends one message
\* with that topic, the nodeId of the point and that value.
C13_NotificationStoresAndSends ==
    [][\A i \in Points, j \in 1 .. MaxSamples :
         Notification(i, j) =>
            /\ gctx'[Items[i].topic] = SampleValue(j)
            /\ sent' = [topic |-> Items[i].topic, nodeId |-> Items[i].nodeId,
                        payload |-> SampleValue(j)]]_vars

\* The notification of value 42 for the topic "temp" has been handled.
C13_Witness ==
    /\ gctx["temp"] = Num(42)
    /\ sent = [topic |-> "temp", nodeId |-> "ns=1;s=Temp", payload |-> Num(42)]
    /\ notified[1] = 2

\* The configured points a message names, by its topic or by its nodeId.
NamedPoints(msg) ==
    { i \in Points : \/ msg.topic # "" /\ Items[i].topic = msg.topic
                     \/ msg.nodeId # "" /\ Items[i].nodeId = msg.nodeId }

\* The type C14 expects a write to be encoded with.
ExpectedTypes(msg) ==
    IF msg.datatype \in DataTypeNames THEN {msg.datatype}
    ELSE LET configured == { Items[i].dataType : i \in NamedPoints(msg) } \cap DataTypeNames
         IN  IF configured # {} THEN configured
             ELSE {IF msg.payload.t = "number" THEN "Double" ELSE "String"}

\* C14: a write request that is issued, its point resolved by topic or by
\* reverse lookup of its nodeId, is encoded with the type the request
\* supplies, else with the configured type of the resolved point, else with
\* the type inferred from the value.
C14_WriteType ==
    [][\A msg \in Msgs :
         (ClientInput(msg) /\ msg.action = "write" /\ lastInput' = "issued") =>
            \E r \in reqs' \ reqs : r.dataType \in ExpectedTypes(msg)]_vars

\* The connect attempts that await client.connect, client.createSession or
\* the creation of a monitored item.
AttemptsInFlight == { p \in ConnectProcs : pc[p] \in {"connect", "session", "monitor"} }

\* C15: at most one connect attempt is in progress at any time, and no
\* reconnect callback fires (to run cleanup and start a new attempt) while an
\* attempt is still in progress.
C15_NoOverlappingConnect ==
    /\ [](Cardinality(AttemptsInFlight) <= 1)
    /\ [][\A p \in TimerProcs : TimerFire(p) => AttemptsInFlight = {}]_vars

\* C16: when the manager is not stopping and a connect or a session creation
\* fails, a subscription terminates or a connection is lost, on the first
\* connection or on one a reconnect established, a reconnect is pending after
\* that step.
C16_FailureSchedulesReconnect ==
    [][(/\ ~stopping
        /\ \/ \E p \in ConnectProcs : ConnectDone(p, FALSE) \/ SessionDone(p, FALSE)
           \/ \E sub \in ConnectProcs : SubTerminated(sub)
           \/ ConnectionLost
           \/ \E c \in ConnectProcs : ConnectionLostUnheard(c)) =>
          /\ reconnectTimer' # NULL
          /\ pc'[reconnectTimer'] = "timer"]_vars

\* The manager is Active: the session is the one of a connect attempt that
\* ended established, no reconnect is pending and close was not requested.
Active ==
    /\ ~stopping
    /\ reconnectTimer = NULL
    /\ session # NULL
    /\ pc[session] = "active"

\* C17: a read or write is sent to the remote source only while the manager
\* is Active: not while connecting, during subscription setup, while a
\* reconnect is pending or after close was requested.
C17_RequestsOnlyWhenActive ==
    [][\A msg \in Msgs : (ClientInput(msg) /\ lastInput' = "issued") => Active]_vars

\* C18: Auth.SessionToken is null exactly when Auth.ExpiresAt is null, and
\* the expiry stored with a token is a timestamp later than the time the
\* token was stored, whatever login response the remote service returned.
C18_TokenStoreInvariant ==
    /\ (auth.token = JsNull) <=> (auth.expiresAt = JsNull)
    /\ (stored.ok /\ auth.token # JsNull) =>
          /\ auth.expiresAt.t = "number"
          /\ auth.expiresAt.n > stored.at

\* C19: the value the store holds under the topic of a configured point never
\* goes back from a sample of that point to an older one, however
\* notifications, reads and writes interleave.
C19_NoRegress ==
    [][\A i \in Points, a \in 1 .. MaxSamples, b \in 1 .. MaxSamples :
         (/\ gctx[Items[i].topic] = SampleValue(a)
          /\ gctx'[Items[i].topic] = SampleValue(b)) => b >= a]_vars

\* The step leaves every store entry but the one under topic, and the Auth.*
\* keys, as they are.
OnlyTopicChanges(topic) ==
    /\ \A k \in StoreKeys \ {topic} : gctx'[k] = gctx[k]
    /\ auth' = auth

\* C20: a notification or an answered read for a point changes only the store
\* entry under the topic of that point, not the entries of other topics nor
\* the Auth.* keys, and a write request changes no store entry at all,
\* neither when it is issued nor when it is answered.
C20_StoreFrame ==
    [][/\ \A i \in Points, j \in 1 .. MaxSamples :
            Notification(i, j) => OnlyTopicChanges(Items[i].topic)
       /\ \A r \in reqs, ok \in BOOLEAN :
            RequestDone(r, ok, ReadResult(r)) =>
               IF r.action = "read" THEN OnlyTopicChanges(r.topic)
               ELSE gctx' = gctx /\ auth' = auth
       /\ \A msg \in DataMsgs :
            ClientInput(msg) => gctx' = gctx /\ auth' = auth]_vars

\* After a write to "t1" was answered (no read and no notification has
\* stored a value of "t1"), a notification for the other point "temp" has
\* been handled.
C20_Witness ==
    /\ lastInput = "sent"
    /\ sent.topic = "temp"
    /\ gctx["temp"] = sent.payload
    /\ gctx["t1"] = JsNull
    /\ notified[2] = 0

\* C22: a login call that was issued before the call whose result the store
\* holds, and completes after it, leaves the stored token, return code and
\* expiry as they are.
C22_LaterCallWins ==
    [][\A i \in 1 .. MaxInflight : \A o \in HttpOutcomes :
         (LoginDone(i, o) /\ i <= overtaken) => auth' = auth]_vars

\* C23: a login call that was in flight when the last logout was processed
\* stores no token when it completes: the token stays null, or stays the one
\* that a call issued after the logout stored.
C23_LogoutOutlivesCallsInFlight ==
    [][\A i \in 1 .. MaxInflight : \A o \in HttpOutcomes :
         (LoginDone(i, o) /\ i <= preLogout) => auth'.token \in {JsNull, auth.token}]_vars

\* Every startServer call made so far has failed, the last of them too, and
\* no stop was processed since: the node has made no successful start.
StartupFailed ==
    /\ \A p \in StartProcs : startPc[p] \in {"unused", "failed"}
    /\ \E p \in StartProcs : startPc[p] = "failed"
    /\ stops = <<>>
    /\ startPc[CloseProc] = "idle"

\* C24: after a failed startup attempt the server node is not started: a
\* "start" message begins a new startup attempt, and a message with a value
\* for a topic is answered "server niet actief".
C24_FailedStartIsNotStarted ==
    [][\A msg \in ServerMsgs :
         (StartupFailed /\ ServerInput(msg)) =>
            /\ msg.action = "start" =>
                  \E p \in StartProcs : startPc[p] = "unused" /\ startPc'[p] = "initialize"
            /\ msg.action = "" => reply' = Reply("server niet actief")]_vars

\* The subscription sub is torn down: a cleanup awaits its terminate() call,
\* or it is no longer the subscription of the manager.
TornDown(sub) == subscription # sub \/ \E q \in Procs : pc[q] = "cl_sub"

\* C21: tearing down the old subscription inside a reconnect does not itself
\* schedule another reconnect: when every subscription that carries the
\* "terminated" listener is torn down, a "terminated" event creates no
\* reconnect timer, so none is pending once the new connection is
\* established.
C21_TeardownSchedulesNothing ==
    [][(/\ \A sub \in terminatedOn : TornDown(sub)
        /\ \E sub \in ConnectProcs : SubTerminated(sub)) =>
          /\ reconnectTimer' = reconnectTimer
          /\ nextTimer' = nextTimer]_vars

\* C9: no read or write request is dropped without a response: the input
\* handler never ends a message with done() alone.
C9_NoSilentDrop == lastInput # "dropped"

====
